---- MODULE Spec2Model ----
(***************************************************************************)
(* PayFlow document / signature lifecycle.                                 *)
(*                                                                         *)
(* The state is the two tables the tRPC routers read and write (Document   *)
(* and Signature rows), the wall clock, and the position of every request  *)
(* handler that is in flight.  Handlers are the procedures of              *)
(* signaturesRouter and documentsRouter (the enhanced routers; the earlier *)
(* versions kept beside them differ only by the checks they lack).         *)
(*                                                                         *)
(* The recipients' handlers (sign, decline) await several database calls   *)
(* and are split at their awaits: one action per call.  The senders'       *)
(* handlers are taken in one step each.  The store is the PostgreSQL       *)
(* database of VERCEL_SETUP.md.  No handler encloses two calls in one      *)
(* transaction.  The one call that writes and reads, sign's update with    *)
(* include, is a transaction of the store on its own: under PostgreSQL's   *)
(* default isolation its reads see committed rows and its own write, and   *)
(* its write is seen by others once it has committed (signUpdate, then     *)
(* signCommit).                                                            *)
(***************************************************************************)
EXTENDS Integers, FiniteSets, Sequences, TLC

\* ------------------------------------------------------------------ bounds
\* the general specification: documents, signatures per table, users, clock
\* values, signature payloads, calls to sign or decline in flight at once
MaxDocs == 1
MaxSigs == 2
MaxUsers == 2
MaxTime == 2
MaxPayload == 2
MaxProcs == 1
\* the well-formed recipient addresses the senders' lists are made of, the
\* empty list included
MaxEmails == 1
\* the recipients' specifications: one SENT document with RaceSigs signatures
\* and RaceProcs recipients' calls in flight at once
RaceSigs == 2
OwnerDocs == 2
OwnerSigs == 2
ReminderSigs == 3
RaceProcs == 2
\* the decline specification: one SENT document with DeclineSigs signatures,
\* the recipients' calls one after the other
DeclineSigs == 3
\* the dispatch specification: the senders' calls that insert documents or set
\* their status, on tables of DispatchDocs documents and DispatchSigs
\* signatures, with recipient lists of 1 to DispatchRecipients addresses of
\* which 1..DispatchEmails are well formed
DispatchDocs == 2
DispatchSigs == 3
DispatchRecipients == 2
DispatchEmails == 2

\* a nullable column (expiresAt, signatureData, signedAt) that holds nothing
NULL == 0

\* a recipient address that z.string().email() does not accept
Malformed == 0

\* recipients: z.array(...).max(10)
MaxRecipients == 10

Users == 1..MaxUsers
Times == 1..MaxTime
Payloads == 1..MaxPayload
Emails == 1..MaxEmails

DocumentStatus == {"DRAFT", "SENT", "COMPLETED", "EXPIRED", "CANCELLED"}
SignatureStatus == {"PENDING", "SIGNED", "DECLINED", "EXPIRED"}

VARIABLES docs, sigs, now, pc, req, res, mail

vars == <<docs, sigs, now, pc, req, res, mail>>

\* the ids the tables can hold and the request slots, fixed by the initial state
DocIds == DOMAIN docs
SigIds == DOMAIN sigs
Procs == DOMAIN pc

\* ------------------------------------------------------------------ rows
NoDocument == [exists |-> FALSE, status |-> "DRAFT", senderId |-> 0, expiresAt |-> NULL]

NoSignature ==
    [exists |-> FALSE, documentId |-> 0, recipientEmail |-> Malformed,
     status |-> "PENDING", signatureData |-> NULL, signedAt |-> NULL,
     updatedAt |-> NULL]

\* the row signatures.create inserts at time t for a recipient: only the
\* recipient and the document are given, every other column takes its default
NewSignature(d, email, t) ==
    [NoSignature EXCEPT !.exists = TRUE, !.documentId = d,
                        !.recipientEmail = email, !.updatedAt = t]

\* the mail service as the server starts without RESEND_API_KEY: sendEmail
\* throws before it reaches the provider, nothing is ever sent
NoMail == [RESEND_API_KEY |-> FALSE, sent |-> {}]

NoRequest ==
    [signatureId |-> 0, signatureData |-> NULL, signedAt |-> NULL, allSigned |-> FALSE]

\* the signatures relation of a document (include: { signatures: true })
SignaturesOf(d) == {s \in SigIds : sigs[s].exists /\ sigs[s].documentId = d}

\* existingSignature.document.expiresAt && expiresAt < new Date()
IsExpired(doc, t) == doc.expiresAt # NULL /\ doc.expiresAt < t

\* document.signatures.every(sig => sig.status === "SIGNED"), on the rows the
\* update call of process p returns: its own row as written, the others as stored
AllSignedSeenBy(p, d) ==
    \A s \in SignaturesOf(d) : s = req[p].signatureId \/ sigs[s].status = "SIGNED"

TypeOK ==
    /\ docs \in [DocIds -> [exists : BOOLEAN, status : DocumentStatus,
                           senderId : 0..MaxUsers, expiresAt : 0..MaxTime]]
    /\ sigs \in [SigIds -> [exists : BOOLEAN, documentId : {0} \cup DocIds,
                           recipientEmail : Nat, status : SignatureStatus,
                           signatureData : 0..MaxPayload, signedAt : 0..MaxTime,
                           updatedAt : 0..MaxTime]]
    /\ now \in Times
    /\ pc \in [Procs -> {"idle", "signExpire", "signUpdate", "signCommit",
                         "signComplete", "declineUpdate"}]
    /\ res \in [op : {"none", "sign", "decline", "cancelSignatures", "setDeadline",
                       "create", "updateStatus", "batchUpdateStatus", "update",
                       "duplicate", "resend", "bulkResend", "delete",
                       "batchDelete", "deleteAccount"},
                 code : {"none", "ok", "NOT_FOUND", "BAD_REQUEST", "FORBIDDEN",
                         "INTERNAL_SERVER_ERROR"}]
    /\ mail \in [RESEND_API_KEY : BOOLEAN,
                  sent : SUBSET [subject : {"Signature Request"}, signatureId : SigIds]]

\* empty tables, the server just started
Init ==
    /\ docs = [d \in 1..MaxDocs |-> NoDocument]
    /\ sigs = [s \in 1..MaxSigs |-> NoSignature]
    /\ now = 1
    /\ pc = [p \in 1..MaxProcs |-> "idle"]
    /\ req = [p \in 1..MaxProcs |-> NoRequest]
    /\ res = [op |-> "none", code |-> "none"]
    /\ mail = NoMail

\* a split handler ends: it returns ("ok") or throws a TRPCError with the given
\* code; res is the call that ended last and its outcome
Return(p, op, code) ==
    /\ pc' = [pc EXCEPT ![p] = "idle"]
    /\ req' = [req EXCEPT ![p] = NoRequest]
    /\ res' = [op |-> op, code |-> code]
    /\ UNCHANGED mail

\* a handler taken in one step returns
Ok(op) ==
    /\ res' = [op |-> op, code |-> "ok"]
    /\ UNCHANGED mail

\* a handler taken in one step throws: nothing but the outcome changes
Throw(op, code) ==
    /\ res' = [op |-> op, code |-> code]
    /\ UNCHANGED <<docs, sigs, now, pc, req, mail>>

\* ------------------------------------------------------------------ signaturesRouter.sign
\* sign without the check that the signature is still PENDING
signFindUnchecked(p, s, data) ==
    /\ pc[p] = "idle"
    /\ IF ~sigs[s].exists
          THEN Return(p, "sign", "NOT_FOUND")
          ELSE /\ pc' = [pc EXCEPT ![p] =
                     IF IsExpired(docs[sigs[s].documentId], now)
                        THEN "signExpire" ELSE "signUpdate"]
               /\ req' = [req EXCEPT ![p] =
                     [NoRequest EXCEPT !.signatureId = s, !.signatureData = data]]
               /\ UNCHANGED <<res, mail>>
    /\ UNCHANGED <<docs, sigs, now>>

\* sign without the test of the document's deadline
signFindNoDeadline(p, s, data) ==
    /\ pc[p] = "idle"
    /\ IF ~sigs[s].exists
          THEN Return(p, "sign", "NOT_FOUND")
          ELSE IF sigs[s].status # "PENDING"
          THEN Return(p, "sign", "BAD_REQUEST")
          ELSE /\ pc' = [pc EXCEPT ![p] = "signUpdate"]
               /\ req' = [req EXCEPT ![p] =
                     [NoRequest EXCEPT !.signatureId = s, !.signatureData = data]]
               /\ UNCHANGED <<res, mail>>
    /\ UNCHANGED <<docs, sigs, now>>

\* findUnique and the checks that follow it
signFind(p, s, data) ==
    /\ pc[p] = "idle"
    /\ IF ~sigs[s].exists
          THEN Return(p, "sign", "NOT_FOUND")
          ELSE IF sigs[s].status # "PENDING"
          THEN Return(p, "sign", "BAD_REQUEST")
          ELSE /\ pc' = [pc EXCEPT ![p] =
                     IF IsExpired(docs[sigs[s].documentId], now)
                        THEN "signExpire" ELSE "signUpdate"]
               /\ req' = [req EXCEPT ![p] =
                     [NoRequest EXCEPT !.signatureId = s, !.signatureData = data]]
               /\ UNCHANGED <<res, mail>>
    /\ UNCHANGED <<docs, sigs, now>>

\* sign that, finding the deadline passed, expires the Document and all its
\* PENDING Signatures
signExpireSweeps(p) ==
    /\ pc[p] = "signExpire"
    /\ LET s == req[p].signatureId
           d == sigs[s].documentId
       IN /\ sigs' = [x \in SigIds |->
                        IF sigs[x].exists /\ sigs[x].documentId = d
                                          /\ sigs[x].status = "PENDING"
                           THEN [sigs[x] EXCEPT !.status = "EXPIRED"] ELSE sigs[x]]
          /\ docs' = [docs EXCEPT ![d].status = "EXPIRED"]
          /\ Return(p, "sign", "FORBIDDEN")
    /\ UNCHANGED now

\* the deadline has passed: update { status: "EXPIRED" }, then throw FORBIDDEN
signExpire(p) ==
    /\ pc[p] = "signExpire"
    /\ LET s == req[p].signatureId IN
         IF sigs[s].exists
            THEN /\ sigs' = [sigs EXCEPT ![s].status = "EXPIRED"]
                 /\ Return(p, "sign", "FORBIDDEN")
            ELSE /\ UNCHANGED sigs
                 /\ Return(p, "sign", "INTERNAL_SERVER_ERROR")
    /\ UNCHANGED <<docs, now>>

\* signature.update { signatureData, signedAt: new Date(), status: "SIGNED" }
\* with include { document: { signatures } }: the statement runs and reads the
\* sibling rows; its write becomes visible to other calls at signCommit
signUpdate(p) ==
    /\ pc[p] = "signUpdate"
    /\ LET s == req[p].signatureId IN
         IF sigs[s].exists
            THEN /\ req' = [req EXCEPT ![p].signedAt = now,
                                       ![p].allSigned = AllSignedSeenBy(p, sigs[s].documentId)]
                 /\ pc' = [pc EXCEPT ![p] = "signCommit"]
                 /\ UNCHANGED <<res, mail>>
            ELSE Return(p, "sign", "INTERNAL_SERVER_ERROR")
    /\ UNCHANGED <<docs, sigs, now>>

\* the update call returns: the row is stored as written, whatever it held
signCommit(p) ==
    /\ pc[p] = "signCommit"
    /\ LET s == req[p].signatureId IN
         /\ sigs' = [sigs EXCEPT ![s].status = "SIGNED",
                                 ![s].signatureData = req[p].signatureData,
                                 ![s].signedAt = req[p].signedAt]
         /\ IF req[p].allSigned
               THEN /\ pc' = [pc EXCEPT ![p] = "signComplete"]
                    /\ UNCHANGED <<req, res, mail>>
               ELSE Return(p, "sign", "ok")
    /\ UNCHANGED <<docs, now>>

\* if (allSigned) document.update { status: "COMPLETED" }
signComplete(p) ==
    /\ pc[p] = "signComplete"
    /\ LET d == sigs[req[p].signatureId].documentId IN
         IF docs[d].exists
            THEN /\ docs' = [docs EXCEPT ![d].status = "COMPLETED"]
                 /\ Return(p, "sign", "ok")
            ELSE /\ UNCHANGED docs
                 /\ Return(p, "sign", "INTERNAL_SERVER_ERROR")
    /\ UNCHANGED <<sigs, now>>

\* ------------------------------------------------------------------ signaturesRouter.decline
\* decline without the check that the signature is still PENDING
declineFindUnchecked(p, s) ==
    /\ pc[p] = "idle"
    /\ IF ~sigs[s].exists
          THEN Return(p, "decline", "NOT_FOUND")
          ELSE /\ pc' = [pc EXCEPT ![p] = "declineUpdate"]
               /\ req' = [req EXCEPT ![p] = [NoRequest EXCEPT !.signatureId = s]]
               /\ UNCHANGED <<res, mail>>
    /\ UNCHANGED <<docs, sigs, now>>

\* findUnique and the checks that follow it
declineFind(p, s) ==
    /\ pc[p] = "idle"
    /\ IF ~sigs[s].exists
          THEN Return(p, "decline", "NOT_FOUND")
          ELSE IF sigs[s].status # "PENDING"
          THEN Return(p, "decline", "BAD_REQUEST")
          ELSE /\ pc' = [pc EXCEPT ![p] = "declineUpdate"]
               /\ req' = [req EXCEPT ![p] = [NoRequest EXCEPT !.signatureId = s]]
               /\ UNCHANGED <<res, mail>>
    /\ UNCHANGED <<docs, sigs, now>>

declineUpdate(p) ==
    /\ pc[p] = "declineUpdate"
    /\ LET s == req[p].signatureId IN
         IF sigs[s].exists
            THEN /\ sigs' = [sigs EXCEPT ![s].status = "DECLINED"]
                 /\ Return(p, "decline", "ok")
            ELSE /\ UNCHANGED sigs
                 /\ Return(p, "decline", "INTERNAL_SERVER_ERROR")
    /\ UNCHANGED <<docs, now>>

\* ------------------------------------------------------------------ signaturesRouter.cancelSignatures
\* findMany { id in ids, status PENDING }: the rows the ownership check looks at
PendingAmong(ids) == {s \in ids : sigs[s].exists /\ sigs[s].status = "PENDING"}

Unauthorized(u, found) == {s \in found : docs[sigs[s].documentId].senderId # u}

\* updateMany { where: { id in ids }, data: { status: "EXPIRED" } }
cancelSignatures(u, ids) ==
    IF Unauthorized(u, PendingAmong(ids)) # {}
       THEN Throw("cancelSignatures", "FORBIDDEN")
       ELSE /\ sigs' = [s \in SigIds |->
                          IF s \in ids /\ sigs[s].exists
                             THEN [sigs[s] EXCEPT !.status = "EXPIRED"] ELSE sigs[s]]
            /\ Ok("cancelSignatures")
            /\ UNCHANGED <<docs, now, pc, req>>

\* ------------------------------------------------------------------ signaturesRouter.setDeadline
ExistingAmong(ids) == {s \in ids : sigs[s].exists}

setDeadline(u, ids, deadline) ==
    IF Unauthorized(u, ExistingAmong(ids)) # {}
       THEN Throw("setDeadline", "FORBIDDEN")
       ELSE /\ LET documentIds == {sigs[s].documentId : s \in ExistingAmong(ids)} IN
                 docs' = [d \in DocIds |->
                            IF d \in documentIds
                               THEN [docs[d] EXCEPT !.expiresAt = deadline] ELSE docs[d]]
            /\ Ok("setDeadline")
            /\ UNCHANGED <<sigs, now, pc, req>>

\* ------------------------------------------------------------------ signaturesRouter.resend
\* resend without the check that the signature is PENDING
resendUnchecked(u, s) ==
    IF ~sigs[s].exists
       THEN Throw("resend", "NOT_FOUND")
       ELSE IF docs[sigs[s].documentId].senderId # u
       THEN Throw("resend", "FORBIDDEN")
       ELSE /\ sigs' = [sigs EXCEPT ![s].updatedAt = now]
            /\ Ok("resend")
            /\ UNCHANGED <<docs, now, pc, req>>

\* findFirst with the document, the three checks, update { updatedAt: new Date() }
resend(u, s) ==
    IF ~sigs[s].exists
       THEN Throw("resend", "NOT_FOUND")
       ELSE IF docs[sigs[s].documentId].senderId # u
       THEN Throw("resend", "FORBIDDEN")
       ELSE IF sigs[s].status # "PENDING"
       THEN Throw("resend", "BAD_REQUEST")
       ELSE /\ sigs' = [sigs EXCEPT ![s].updatedAt = now]
            /\ Ok("resend")
            /\ UNCHANGED <<docs, now, pc, req>>

\* bulkResend that leaves out the rows of other senders' documents instead of
\* refusing the request
bulkResendSkipsForeign(u, ids) ==
    /\ sigs' = [s \in SigIds |->
                  IF s \in PendingAmong(ids) \ Unauthorized(u, PendingAmong(ids))
                     THEN [sigs[s] EXCEPT !.updatedAt = now] ELSE sigs[s]]
    /\ Ok("bulkResend")
    /\ UNCHANGED <<docs, now, pc, req>>

\* return { count: updatedSignatures.length }: one entry per row found
bulkResendCount(ids) == Cardinality(PendingAmong(ids))

\* bulkResend whose updates go to every id of the request, as the updateMany
\* of cancelSignatures does
bulkResendAll(u, ids) ==
    IF Unauthorized(u, PendingAmong(ids)) # {}
       THEN Throw("bulkResend", "FORBIDDEN")
       ELSE /\ sigs' = [s \in SigIds |->
                          IF s \in ExistingAmong(ids)
                             THEN [sigs[s] EXCEPT !.updatedAt = now] ELSE sigs[s]]
            /\ Ok("bulkResend")
            /\ UNCHANGED <<docs, now, pc, req>>

\* findMany { id in ids, status PENDING }, the ownership check, then one
\* update { updatedAt: new Date() } per row found
bulkResend(u, ids) ==
    IF Unauthorized(u, PendingAmong(ids)) # {}
       THEN Throw("bulkResend", "FORBIDDEN")
       ELSE /\ sigs' = [s \in SigIds |->
                          IF s \in PendingAmong(ids)
                             THEN [sigs[s] EXCEPT !.updatedAt = now] ELSE sigs[s]]
            /\ Ok("bulkResend")
            /\ UNCHANGED <<docs, now, pc, req>>

\* ------------------------------------------------------------------ documentsRouter
\* the ids no row has had yet: ids are generated (cuid) and never come back
FreeDocs == {d \in DocIds : docs[d] = NoDocument}
FreeSigs == {s \in SigIds : sigs[s] = NoSignature}

\* the n smallest ids of a set
RECURSIVE FirstN(_, _)
FirstN(S, n) ==
    IF n = 0 \/ S = {} THEN {}
    ELSE LET m == CHOOSE x \in S : \A y \in S : x <= y
         IN {m} \cup FirstN(S \ {m}, n - 1)

\* z.string().email("Invalid email address")
IsEmail(e) == e # Malformed

\* the input schema's recipients: 1 to 10 entries, each a well-formed address
RecipientsValid(recipients) ==
    /\ Len(recipients) >= 1
    /\ Len(recipients) <= MaxRecipients
    /\ \A i \in 1..Len(recipients) : IsEmail(recipients[i])

\* the recipient lists of at most n entries over the addresses A
RecipientLists(A, n) == UNION {[1..k -> A] : k \in 0..n}

\* the signature request mailed to the recipient of signature s
SignatureRequest(s) == [subject |-> "Signature Request", signatureId |-> s]

\* sendEmail throws without RESEND_API_KEY and when the provider answers with
\* an error: the mails, out of those handed over, that can get through
sendEmail(requests) == IF mail.RESEND_API_KEY THEN SUBSET requests ELSE {{}}

\* sendEmailSafe catches what sendEmail throws and returns false: a failed
\* mail is logged and left out, the caller goes on
sendEmailSafe(requests) ==
    \E delivered \in sendEmail(requests) :
        mail' = [mail EXCEPT !.sent = @ \cup delivered]

\* document.create with nested signatures.create, one row per recipient in the
\* order of the list, in one statement; then, with sendImmediately, one
\* sendEmailSafe per signature
createRows(u, recipients, sendImmediately, expiresAt) ==
    /\ FreeDocs # {}
    /\ Cardinality(FreeSigs) >= Len(recipients)
    /\ LET d == CHOOSE x \in FreeDocs : \A y \in FreeDocs : x <= y
           new == FirstN(FreeSigs, Len(recipients))
           rank(s) == Cardinality({x \in new : x <= s})
       IN /\ docs' = [docs EXCEPT ![d] =
                  [exists |-> TRUE,
                   status |-> IF sendImmediately THEN "SENT" ELSE "DRAFT",
                   senderId |-> u, expiresAt |-> expiresAt]]
          /\ sigs' = [s \in SigIds |->
                  IF s \in new
                     THEN NewSignature(d, recipients[rank(s)], now)
                     ELSE sigs[s]]
          /\ IF sendImmediately
                THEN sendEmailSafe({SignatureRequest(s) : s \in new})
                ELSE UNCHANGED mail
    /\ res' = [op |-> "create", code |-> "ok"]
    /\ UNCHANGED <<now, pc, req>>

\* create whose schema takes any string for a recipient's email
createNoEmailCheck(u, recipients, sendImmediately, expiresAt) ==
    IF Len(recipients) >= 1 /\ Len(recipients) <= MaxRecipients
       THEN createRows(u, recipients, sendImmediately, expiresAt)
       ELSE Throw("create", "BAD_REQUEST")

\* create whose schema has no .min(1) on recipients
createNoMinimum(u, recipients, sendImmediately, expiresAt) ==
    IF /\ Len(recipients) <= MaxRecipients
       /\ \A i \in 1..Len(recipients) : IsEmail(recipients[i])
       THEN createRows(u, recipients, sendImmediately, expiresAt)
       ELSE Throw("create", "BAD_REQUEST")

\* create whose insert and mails are one transaction: a mail that fails
\* takes the rows back
createRollsBack(u, recipients, sendImmediately, expiresAt) ==
    IF RecipientsValid(recipients)
       THEN \/ /\ createRows(u, recipients, sendImmediately, expiresAt)
               /\ sendImmediately =>
                     \A s \in FirstN(FreeSigs, Len(recipients)) :
                        SignatureRequest(s) \in mail'.sent
            \/ /\ sendImmediately
               /\ FreeDocs # {}
               /\ Cardinality(FreeSigs) >= Len(recipients)
               /\ Throw("create", "INTERNAL_SERVER_ERROR")
       ELSE Throw("create", "BAD_REQUEST")

\* the input is parsed against the schema before the handler runs; a parse
\* failure is answered with BAD_REQUEST and the handler is not called
create(u, recipients, sendImmediately, expiresAt) ==
    IF RecipientsValid(recipients)
       THEN createRows(u, recipients, sendImmediately, expiresAt)
       ELSE Throw("create", "BAD_REQUEST")

\* findFirst { id, senderId } with its signatures, then document.create of a
\* DRAFT copy with one new signature per signature of the original (same
\* recipient); title, file and sender are copied, expiresAt is not
duplicate(u, d) ==
    IF docs[d].exists /\ docs[d].senderId = u
       THEN /\ FreeDocs # {}
            /\ Cardinality(FreeSigs) >= Cardinality(SignaturesOf(d))
            /\ LET c == CHOOSE x \in FreeDocs : \A y \in FreeDocs : x <= y
                   old == SignaturesOf(d)
                   new == FirstN(FreeSigs, Cardinality(old))
                   \* the original signature at the same place in id order
                   from(s) == CHOOSE o \in old :
                                 Cardinality({x \in old : x <= o}) =
                                 Cardinality({x \in new : x <= s})
               IN /\ docs' = [docs EXCEPT ![c] =
                          [exists |-> TRUE, status |-> "DRAFT",
                           senderId |-> u, expiresAt |-> NULL]]
                  /\ sigs' = [s \in SigIds |->
                          IF s \in new
                             THEN NewSignature(c, sigs[from(s)].recipientEmail, now)
                             ELSE sigs[s]]
            /\ Ok("duplicate")
            /\ UNCHANGED <<now, pc, req>>
       ELSE Throw("duplicate", "NOT_FOUND")

\* findFirst { id, senderId }, then update { status }
updateStatus(u, d, status) ==
    IF docs[d].exists /\ docs[d].senderId = u
       THEN /\ docs' = [docs EXCEPT ![d].status = status]
            /\ Ok("updateStatus")
            /\ UNCHANGED <<sigs, now, pc, req>>
       ELSE Throw("updateStatus", "NOT_FOUND")

\* updateMany { where: { id in documentIds, senderId }, data: { status } }
batchUpdateStatus(u, documentIds, status) ==
    /\ docs' = [d \in DocIds |->
                  IF d \in documentIds /\ docs[d].exists /\ docs[d].senderId = u
                     THEN [docs[d] EXCEPT !.status = status] ELSE docs[d]]
    /\ Ok("batchUpdateStatus")
    /\ UNCHANGED <<sigs, now, pc, req>>

\* update whose where clause names the id only
updateAnyones(u, d, expiresAt) ==
    IF docs[d].exists
       THEN /\ docs' = [docs EXCEPT ![d].expiresAt = expiresAt]
            /\ Ok("update")
            /\ UNCHANGED <<sigs, now, pc, req>>
       ELSE Throw("update", "NOT_FOUND")

\* update { where: { id, senderId }, data: { title?, description?, expiresAt? } }
update(u, d, expiresAt) ==
    IF docs[d].exists /\ docs[d].senderId = u
       THEN /\ docs' = [docs EXCEPT ![d].expiresAt = expiresAt]
            /\ Ok("update")
            /\ UNCHANGED <<sigs, now, pc, req>>
       ELSE Throw("update", "NOT_FOUND")

\* onDelete: Cascade from a document to its signatures: the rows that go
\* with the documents D.  A statement that has written one of them and has
\* not committed holds its row lock, the delete waits for it
Locked(D) ==
    \E p \in Procs : /\ pc[p] = "signCommit"
                      /\ sigs[req[p].signatureId].documentId \in D

DeletedDocument(d) == [NoDocument EXCEPT !.senderId = docs[d].senderId]

DeletedSignature(s) == [NoSignature EXCEPT !.documentId = sigs[s].documentId]

CascadeDelete(D) ==
    /\ ~Locked(D)
    /\ docs' = [d \in DocIds |-> IF d \in D THEN DeletedDocument(d) ELSE docs[d]]
    /\ sigs' = [s \in SigIds |->
                  IF sigs[s].exists /\ sigs[s].documentId \in D
                     THEN DeletedSignature(s) ELSE sigs[s]]

\* delete that leaves the signatures of the document where they are
deleteKeepsSignatures(u, d) ==
    IF docs[d].exists /\ docs[d].senderId = u
       THEN /\ docs' = [docs EXCEPT ![d] = DeletedDocument(d)]
            /\ Ok("delete")
            /\ UNCHANGED <<sigs, now, pc, req>>
       ELSE Throw("delete", "NOT_FOUND")

\* document.delete { where: { id, senderId } }; no such row: NOT_FOUND
delete(u, d) ==
    IF docs[d].exists /\ docs[d].senderId = u
       THEN /\ CascadeDelete({d})
            /\ Ok("delete")
            /\ UNCHANGED <<now, pc, req>>
       ELSE Throw("delete", "NOT_FOUND")

\* document.deleteMany { where: { id in documentIds, senderId } }
batchDelete(u, documentIds) ==
    /\ CascadeDelete({d \in documentIds : docs[d].exists /\ docs[d].senderId = u})
    /\ Ok("batchDelete")
    /\ UNCHANGED <<now, pc, req>>

\* usersRouter.deleteAccount: user.delete { where: { id: session.user.id } },
\* which takes the user's documents and their signatures with it
deleteAccount(u) ==
    /\ CascadeDelete({d \in DocIds : docs[d].exists /\ docs[d].senderId = u})
    /\ Ok("deleteAccount")
    /\ UNCHANGED <<now, pc, req>>

\* the wall clock (new Date()) moves on
Tick ==
    /\ now < MaxTime
    /\ now' = now + 1
    /\ UNCHANGED <<docs, sigs, pc, req, res, mail>>

\* the recipients' calls (publicProcedure: no session), at any time
NextRecipients ==
    \/ \E p \in Procs, s \in SigIds, data \in Payloads : signFind(p, s, data)
    \/ \E p \in Procs : signExpire(p)
    \/ \E p \in Procs : signUpdate(p)
    \/ \E p \in Procs : signCommit(p)
    \/ \E p \in Procs : signComplete(p)
    \/ \E p \in Procs, s \in SigIds : declineFind(p, s)
    \/ \E p \in Procs : declineUpdate(p)
    \/ Tick

\* the senders' calls (protectedProcedure: the session's user u)
NextSenders ==
    \/ \E u \in Users, ids \in SUBSET SigIds \ {{}} : cancelSignatures(u, ids)
    \/ \E u \in Users, ids \in SUBSET SigIds \ {{}}, t \in Times : setDeadline(u, ids, t)
    \/ \E u \in Users, r \in RecipientLists(Emails, Cardinality(SigIds)),
          b \in BOOLEAN, e \in {NULL} \cup Times :
          create(u, r, b, e)
    \/ \E u \in Users, d \in DocIds, st \in DocumentStatus : updateStatus(u, d, st)
    \/ \E u \in Users, D \in SUBSET DocIds \ {{}}, st \in DocumentStatus :
          batchUpdateStatus(u, D, st)
    \/ \E u \in Users, d \in DocIds, e \in Times : update(u, d, e)

Next == NextRecipients \/ NextSenders

Spec == Init /\ [][Next]_vars

\* ------------------------------------------------------------------ recipients only
\* the state create leaves for RaceSigs recipients with sendImmediately: one
\* SENT document, all its signatures PENDING; RaceProcs request slots
InitSent ==
    /\ \E u \in Users, e \in {NULL} \cup Times :
          docs = [d \in 1..1 |->
                    [exists |-> TRUE, status |-> "SENT", senderId |-> u, expiresAt |-> e]]
    /\ sigs = [s \in 1..RaceSigs |-> NewSignature(1, s, 1)]
    /\ now = 1
    /\ pc = [p \in 1..RaceProcs |-> "idle"]
    /\ req = [p \in 1..RaceProcs |-> NoRequest]
    /\ res = [op |-> "none", code |-> "none"]
    /\ mail = NoMail

SpecRecipients == InitSent /\ [][NextRecipients]_vars

\* the steps of the call in flight in slot p
InFlight(p) ==
    signExpire(p) \/ signUpdate(p) \/ signCommit(p) \/ signComplete(p) \/ declineUpdate(p)

\* the server runs every call it has accepted to its end and the clock moves
\* on; nothing obliges a recipient or a sender to make a call
SpecRecipientsFair ==
    /\ SpecRecipients
    /\ WF_vars(Tick)
    /\ \A p \in 1..RaceProcs : WF_vars(InFlight(p))

\* ------------------------------------------------------------------ signers only
\* as InitSent, the Document without a deadline
InitSigners ==
    /\ \E u \in Users :
          docs = [d \in 1..1 |->
                    [exists |-> TRUE, status |-> "SENT", senderId |-> u,
                     expiresAt |-> NULL]]
    /\ sigs = [s \in 1..RaceSigs |-> NewSignature(1, s, 1)]
    /\ now = 1
    /\ pc = [p \in 1..RaceProcs |-> "idle"]
    /\ req = [p \in 1..RaceProcs |-> NoRequest]
    /\ res = [op |-> "none", code |-> "none"]
    /\ mail = NoMail

\* the recipients sign, at any time; nobody declines, cancels or overrides
NextSigners ==
    \/ \E p \in Procs, s \in SigIds, data \in Payloads : signFind(p, s, data)
    \/ \E p \in Procs : signUpdate(p)
    \/ \E p \in Procs : signCommit(p)
    \/ \E p \in Procs : signComplete(p)
    \/ Tick

\* the server runs every call it has accepted to its end
SpecSignersFair ==
    /\ InitSigners
    /\ [][NextSigners]_vars
    /\ \A p \in 1..RaceProcs : WF_vars(InFlight(p))

\* ------------------------------------------------------------------ decline among several
\* as InitSent, for DeclineSigs recipients whose calls do not overlap
InitDecline ==
    /\ \E u \in Users, e \in {NULL} \cup Times :
          docs = [d \in 1..1 |->
                    [exists |-> TRUE, status |-> "SENT", senderId |-> u, expiresAt |-> e]]
    /\ sigs = [s \in 1..DeclineSigs |-> NewSignature(1, s, 1)]
    /\ now = 1
    /\ pc = [p \in 1..1 |-> "idle"]
    /\ req = [p \in 1..1 |-> NoRequest]
    /\ res = [op |-> "none", code |-> "none"]
    /\ mail = NoMail

SpecDecline == InitDecline /\ [][NextRecipients]_vars

\* ------------------------------------------------------------------ reminders
\* the recipients' calls on a SENT document, and the reminders of the users
NextResend ==
    \/ NextRecipients
    \/ \E u \in Users, s \in SigIds : resend(u, s)
    \/ \E u \in Users, ids \in SUBSET SigIds \ {{}} : bulkResend(u, ids)

SpecResend == InitDecline /\ [][NextResend]_vars

\* ------------------------------------------------------------------ notifications
\* as Init, with RESEND_API_KEY set or not
InitMail ==
    /\ docs = [d \in 1..MaxDocs |-> NoDocument]
    /\ sigs = [s \in 1..MaxSigs |-> NoSignature]
    /\ now = 1
    /\ pc = [p \in 1..MaxProcs |-> "idle"]
    /\ req = [p \in 1..MaxProcs |-> NoRequest]
    /\ res = [op |-> "none", code |-> "none"]
    /\ mail \in {[NoMail EXCEPT !.RESEND_API_KEY = k] : k \in BOOLEAN}

\* a sender creates a document, its recipients sign or decline
NextMail ==
    \/ \E u \in Users, r \in RecipientLists(Emails, Cardinality(SigIds)),
          b \in BOOLEAN, e \in {NULL} \cup Times :
          create(u, r, b, e)
    \/ NextRecipients

SpecMail == InitMail /\ [][NextMail]_vars

\* ------------------------------------------------------------------ several senders
\* empty tables, no recipient's call
InitOwners ==
    /\ docs = [d \in 1..OwnerDocs |-> NoDocument]
    /\ sigs = [s \in 1..OwnerSigs |-> NoSignature]
    /\ now = 1
    /\ pc = [p \in {} |-> "idle"]
    /\ req = [p \in {} |-> NoRequest]
    /\ res = [op |-> "none", code |-> "none"]
    /\ mail = NoMail

\* the users' calls on documents; each document is created for one recipient,
\* the clock stands still
NextOwners ==
    \/ \E u \in Users, e \in Emails, b \in BOOLEAN : create(u, <<e>>, b, NULL)
    \/ \E u \in Users, d \in DocIds, st \in DocumentStatus : updateStatus(u, d, st)
    \/ \E u \in Users, D \in SUBSET DocIds \ {{}}, st \in DocumentStatus :
          batchUpdateStatus(u, D, st)
    \/ \E u \in Users, d \in DocIds, e \in Times : update(u, d, e)
    \/ \E u \in Users, ids \in SUBSET SigIds \ {{}}, t \in Times : setDeadline(u, ids, t)
    \/ \E u \in Users, d \in DocIds : delete(u, d)
    \/ \E u \in Users, D \in SUBSET DocIds \ {{}} : batchDelete(u, D)
    \/ \E u \in Users : deleteAccount(u)

SpecOwners == InitOwners /\ [][NextOwners]_vars

\* ------------------------------------------------------------------ reminders of several senders
\* OwnerDocs SENT documents, sent by different users in turn, and ReminderSigs
\* PENDING signatures dealt out to the documents in turn; no recipient's call
InitReminders ==
    /\ docs = [d \in 1..OwnerDocs |->
                  [exists |-> TRUE, status |-> "SENT",
                   senderId |-> ((d - 1) % MaxUsers) + 1, expiresAt |-> NULL]]
    /\ sigs = [s \in 1..ReminderSigs |-> NewSignature(((s - 1) % OwnerDocs) + 1, s, 1)]
    /\ now = 1
    /\ pc = [p \in {} |-> "idle"]
    /\ req = [p \in {} |-> NoRequest]
    /\ res = [op |-> "none", code |-> "none"]
    /\ mail = NoMail

\* the senders remind and cancel, the clock moves on
NextReminders ==
    \/ \E u \in Users, s \in SigIds : resend(u, s)
    \/ \E u \in Users, ids \in SUBSET SigIds \ {{}} : bulkResend(u, ids)
    \/ \E u \in Users, ids \in SUBSET SigIds \ {{}} : cancelSignatures(u, ids)
    \/ Tick

SpecReminders == InitReminders /\ [][NextReminders]_vars

\* ------------------------------------------------------------------ deletion
\* documents are created and deleted while their recipients sign and decline
NextDelete ==
    \/ \E u \in Users, r \in RecipientLists(Emails, Cardinality(SigIds)) \ {<<>>},
          e \in {NULL} \cup Times :
          create(u, r, TRUE, e)
    \/ NextRecipients
    \/ \E u \in Users, d \in DocIds : delete(u, d)
    \/ \E u \in Users, D \in SUBSET DocIds \ {{}} : batchDelete(u, D)
    \/ \E u \in Users : deleteAccount(u)

SpecDelete == Init /\ [][NextDelete]_vars

\* ------------------------------------------------------------------ dispatch
\* empty tables, no recipient's call
InitDispatch ==
    /\ docs = [d \in 1..DispatchDocs |-> NoDocument]
    /\ sigs = [s \in 1..DispatchSigs |-> NoSignature]
    /\ now = 1
    /\ pc = [p \in {} |-> "idle"]
    /\ req = [p \in {} |-> NoRequest]
    /\ res = [op |-> "none", code |-> "none"]
    /\ mail = NoMail

\* the lists a sender submits here: one or more rows, any address in a row
DispatchLists ==
    RecipientLists({Malformed} \cup (1..DispatchEmails), DispatchRecipients) \ {<<>>}

\* expiresAt is optional and left out here; the clock stands still
NextDispatch ==
    \/ \E u \in Users, r \in DispatchLists, b \in BOOLEAN : create(u, r, b, NULL)
    \/ \E u \in Users, d \in DocIds : duplicate(u, d)
    \/ \E u \in Users, d \in DocIds, st \in DocumentStatus : updateStatus(u, d, st)
    \/ \E u \in Users, D \in SUBSET DocIds \ {{}}, st \in DocumentStatus :
          batchUpdateStatus(u, D, st)

SpecDispatch == InitDispatch /\ [][NextDispatch]_vars

\* ------------------------------------------------------------------ properties
Terminal == {"SIGNED", "DECLINED", "EXPIRED"}

AllSigned(d) == \A s \in SignaturesOf(d) : sigs[s].status = "SIGNED"

AllReturned == \A p \in Procs : pc[p] = "idle"

\* C1: in every reachable state a Document is COMPLETED if and only if every
\* one of its Signatures is SIGNED.
C1_CompletedIffAllSigned ==
    \A d \in DocIds :
        docs[d].exists => (docs[d].status = "COMPLETED" <=> AllSigned(d))

\* C2: recipients signing the signatures of a SENT document concurrently: once
\* every signature is SIGNED and every call has returned the Document is
\* COMPLETED, and no call sets COMPLETED on a Document that already is.
C2_RaceCompletesExactlyOnce ==
    [][/\ (\A d \in DocIds : (AllReturned /\ AllSigned(d)) => docs[d].status = "COMPLETED")'
       /\ \A p \in Procs :
            (pc[p] = "signComplete" /\ pc'[p] = "idle")
               => docs[sigs[req[p].signatureId].documentId].status # "COMPLETED"]_vars

\* C3: a Signature whose status is SIGNED, DECLINED or EXPIRED keeps that
\* status in every later step.
C3_TerminalSignatureKeepsStatus ==
    [][\A s \in SigIds :
         (sigs[s].exists /\ sigs[s].status \in Terminal)
            => sigs'[s].status = sigs[s].status]_vars

\* C4: of the recipients' calls that resolve one PENDING Signature only one
\* writes it: a row that is no longer PENDING (status, payload, signedAt) is
\* not written again by a concurrent sign or decline.
C4_ResolvedRowNotOverwritten ==
    [][\A s \in SigIds :
         (sigs[s].exists /\ sigs[s].status # "PENDING") => sigs'[s] = sigs[s]]_vars

\* C5: a sign call that finds its Signature already SIGNED (the second of two
\* calls in sequence) is rejected with BAD_REQUEST at once and changes no
\* Signature and no Document; the step that makes a Signature SIGNED stores a
\* payload and a signedAt with it.
C5_SecondSignRejected ==
    [][/\ \A p \in Procs, s \in SigIds, data \in Payloads :
            (signFind(p, s, data) /\ sigs[s].exists /\ sigs[s].status = "SIGNED")
               => /\ res' = [op |-> "sign", code |-> "BAD_REQUEST"]
                  /\ pc'[p] = "idle"
                  /\ sigs' = sigs
                  /\ docs' = docs
       /\ \A s \in SigIds :
            (sigs[s].status # "SIGNED" /\ sigs'[s].status = "SIGNED")
               => (sigs'[s].signatureData # NULL /\ sigs'[s].signedAt # NULL)]_vars

\* a sign call has just been rejected as already processed, and every
\* signature there is was signed before it, with payload and timestamp
C5_Witness ==
    /\ res = [op |-> "sign", code |-> "BAD_REQUEST"]
    /\ \E s \in SigIds : sigs[s].exists
    /\ \A s \in SigIds :
          sigs[s].exists => /\ sigs[s].status = "SIGNED"
                            /\ sigs[s].signatureData # NULL
                            /\ sigs[s].signedAt # NULL

\* C6: a Document that is CANCELLED does not become COMPLETED.
C6_CancelledNeverCompleted ==
    [][\A d \in DocIds :
         (docs[d].exists /\ docs[d].status = "CANCELLED")
            => docs'[d].status # "COMPLETED"]_vars

\* C7: no Document is CANCELLED while one of its Signatures is PENDING.
C7_CancelledHasNoPending ==
    \A d \in DocIds :
        (docs[d].exists /\ docs[d].status = "CANCELLED")
           => \A s \in SignaturesOf(d) : sigs[s].status # "PENDING"

\* C8: a Signature becomes SIGNED only while its Document is SENT.
C8_SignedOnlyWhileSent ==
    [][\A s \in SigIds :
         (sigs[s].exists /\ sigs[s].status = "PENDING" /\ sigs'[s].status = "SIGNED")
            => docs[sigs[s].documentId].status = "SENT"]_vars

\* C9: the only step that makes a Document COMPLETED is the last step of a
\* sign call (signComplete) on one of its Signatures.
C9_CompletedOnlyByAggregation ==
    [][\A d \in DocIds :
         (docs[d].exists /\ docs[d].status # "COMPLETED" /\ docs'[d].status = "COMPLETED")
            => \E p \in Procs :
                  /\ pc[p] = "signComplete"
                  /\ pc'[p] = "idle"
                  /\ sigs[req[p].signatureId].documentId = d]_vars

DocumentEdges ==
    {<<"DRAFT", "SENT">>, <<"SENT", "COMPLETED">>, <<"SENT", "CANCELLED">>,
     <<"SENT", "EXPIRED">>, <<"DRAFT", "CANCELLED">>}

\* C10: a Document's status changes only along DocumentEdges, and a Document
\* that is COMPLETED, EXPIRED or CANCELLED keeps its status and its expiresAt.
C10_DocumentLifecycle ==
    [][\A d \in DocIds :
         docs[d].exists =>
            /\ docs'[d].status = docs[d].status
                  \/ <<docs[d].status, docs'[d].status>> \in DocumentEdges
            /\ docs[d].status \in {"COMPLETED", "EXPIRED", "CANCELLED"}
                  => docs'[d].expiresAt = docs[d].expiresAt]_vars

\* every call has returned, one Signature of d is DECLINED and all the others
\* are SIGNED
OneDeclinedRestSigned(d) ==
    /\ AllReturned
    /\ Cardinality({s \in SignaturesOf(d) : sigs[s].status = "DECLINED"}) = 1
    /\ \A s \in SignaturesOf(d) : sigs[s].status \in {"DECLINED", "SIGNED"}

\* C11: for a SENT Document with three Signatures, the decline of one leaves
\* the Document as it is (SENT), and once the other two are SIGNED and the calls
\* have returned the Document is COMPLETED.
C11_DeclineThenCompleted ==
    [][/\ \A p \in Procs :
            (pc[p] = "declineUpdate" /\ pc'[p] = "idle") => docs' = docs
       /\ (\A d \in DocIds :
              (docs[d].exists /\ OneDeclinedRestSigned(d))
                 => docs[d].status = "COMPLETED")']_vars

\* C12: a decline call is accepted only for a Signature it finds PENDING, and a
\* decline of any other Signature is rejected with BAD_REQUEST and changes no
\* row; the accepted call's write sets the status of that Signature to
\* DECLINED and changes nothing else of it, no other Signature and no
\* Document; a PENDING Signature with a DECLINED sibling is still accepted by
\* sign and by decline.
C12_DeclineChangesOnlyItsSignature ==
    [][/\ \A p \in Procs, s \in SigIds :
            (declineFind(p, s) /\ sigs[s].exists)
               => /\ sigs' = sigs
                  /\ docs' = docs
                  /\ IF sigs[s].status = "PENDING"
                        THEN pc'[p] = "declineUpdate" /\ req'[p].signatureId = s
                        ELSE /\ pc'[p] = "idle"
                             /\ res' = [op |-> "decline", code |-> "BAD_REQUEST"]
       /\ \A p \in Procs :
            (pc[p] = "declineUpdate" /\ pc'[p] = "idle")
               => LET s == req[p].signatureId IN
                    /\ sigs' = [sigs EXCEPT ![s].status = "DECLINED"]
                    /\ docs' = docs
                    /\ res' = [op |-> "decline", code |-> "ok"]
       /\ \A p \in Procs, s \in SigIds, data \in Payloads :
            (/\ signFind(p, s, data) \/ declineFind(p, s)
             /\ sigs[s].exists /\ sigs[s].status = "PENDING"
             /\ \E x \in SignaturesOf(sigs[s].documentId) : sigs[x].status = "DECLINED")
               => /\ pc'[p] \in {"signUpdate", "signExpire", "declineUpdate"}
                  /\ req'[p].signatureId = s]_vars

\* a sign call on a PENDING Signature has been accepted while a sibling is
\* DECLINED (by a decline that wrote nothing but the status) and the Document
\* is still SENT
C12_Witness ==
    \E p \in Procs :
        /\ pc[p] = "signUpdate"
        /\ sigs[req[p].signatureId].status = "PENDING"
        /\ \E x \in SignaturesOf(sigs[req[p].signatureId].documentId) :
              /\ sigs[x].status = "DECLINED"
              /\ sigs[x].signatureData = NULL
              /\ sigs[x].signedAt = NULL
        /\ docs[sigs[req[p].signatureId].documentId].status = "SENT"

\* C13: a sign call that finds its Signature PENDING and the Document's
\* expiresAt earlier than the current time goes on to nothing but the write of
\* EXPIRED: that write changes only the status of the Signature (no payload, no
\* signedAt is stored, no Document changes) and the call ends rejected with
\* FORBIDDEN, without ever reaching the write of SIGNED.
C13_ExpiredSignRejected ==
    [][/\ \A p \in Procs, s \in SigIds, data \in Payloads :
            (/\ signFind(p, s, data)
             /\ sigs[s].exists /\ sigs[s].status = "PENDING"
             /\ IsExpired(docs[sigs[s].documentId], now))
               => /\ pc'[p] = "signExpire"
                  /\ req'[p].signatureId = s
                  /\ sigs' = sigs
                  /\ docs' = docs
       /\ \A p \in Procs :
            pc[p] = "signExpire"
               => \/ pc'[p] = "signExpire" /\ req'[p] = req[p]
                  \/ /\ pc'[p] = "idle"
                     /\ sigs' = [sigs EXCEPT ![req[p].signatureId].status = "EXPIRED"]
                     /\ docs' = docs
                     /\ res' = [op |-> "sign", code |-> "FORBIDDEN"]]_vars

\* a sign call has just been rejected as expired: the deadline of the Document
\* has passed and a Signature of it is EXPIRED, without payload or signedAt
C13_Witness ==
    /\ res = [op |-> "sign", code |-> "FORBIDDEN"]
    /\ \E s \in SigIds :
          /\ sigs[s].exists
          /\ IsExpired(docs[sigs[s].documentId], now)
          /\ sigs[s].status = "EXPIRED"
          /\ sigs[s].signatureData = NULL
          /\ sigs[s].signedAt = NULL

\* the Signatures a step inserts
Inserted == {s \in SigIds : ~sigs[s].exists /\ sigs'[s].exists}

\* C14: a create call whose recipient list holds an address that is not a
\* well-formed email is rejected with BAD_REQUEST and inserts no Document and
\* no Signature, whatever the other addresses are; a step that inserts
\* Signatures inserts with them the one Document they all belong to, and a
\* Document is never inserted without Signatures (no part of a batch).
C14_InvalidRecipientFailsWhole ==
    [][/\ \A u \in Users, r \in DispatchLists, b \in BOOLEAN :
            (create(u, r, b, NULL) /\ \E i \in 1..Len(r) : ~IsEmail(r[i]))
               => /\ docs' = docs
                  /\ sigs' = sigs
                  /\ res' = [op |-> "create", code |-> "BAD_REQUEST"]
       /\ \A s \in Inserted :
             /\ IsEmail(sigs'[s].recipientEmail)
             /\ ~docs[sigs'[s].documentId].exists
             /\ docs'[sigs'[s].documentId].exists
       /\ \A d \in DocIds :
             (~docs[d].exists /\ docs'[d].exists)
                => /\ \E s \in Inserted : sigs'[s].documentId = d
                   /\ res'.code = "ok"]_vars

\* a create call has just been rejected on its input (each list here has one
\* to DispatchRecipients rows, so on an address) and the tables are empty
C14_Witness ==
    /\ res = [op |-> "create", code |-> "BAD_REQUEST"]
    /\ \A d \in DocIds : ~docs[d].exists
    /\ \A s \in SigIds : ~sigs[s].exists

\* the Document is SENT and its deadline has passed
DeadlinePassed(d) ==
    docs[d].exists /\ docs[d].status = "SENT" /\ IsExpired(docs[d], now)

\* the Document is EXPIRED and none of its Signatures is left PENDING
Swept(d) ==
    /\ docs[d].exists /\ docs[d].status = "EXPIRED"
    /\ \A s \in SignaturesOf(d) : sigs[s].status # "PENDING"

\* C15: a SENT Document whose expiresAt has passed is eventually EXPIRED, with
\* none of its Signatures left PENDING: it does not stay SENT forever.
C15_DeadlinePassedIsSwept ==
    \A d \in 1..1 : (d \in DocIds /\ DeadlinePassed(d)) ~> (d \in DocIds /\ Swept(d))

\* C16: in every reachable state a Signature holds a payload (signatureData)
\* and a signedAt if and only if its status is SIGNED.
C16_PayloadIffSigned ==
    \A s \in SigIds :
        sigs[s].exists
           => /\ sigs[s].signatureData # NULL <=> sigs[s].status = "SIGNED"
              /\ sigs[s].signedAt # NULL <=> sigs[s].status = "SIGNED"

\* C17: in every reachable state a Document whose status is SENT has at least
\* one Signature.
C17_SentHasSignature ==
    \A d \in DocIds :
        (docs[d].exists /\ docs[d].status = "SENT") => SignaturesOf(d) # {}

\* a Document that updateStatus has just written is SENT, and has Signatures
C17_Witness ==
    /\ res = [op |-> "updateStatus", code |-> "ok"]
    /\ \E d \in DocIds :
          /\ docs[d].exists
          /\ docs[d].status = "SENT"
          /\ SignaturesOf(d) # {}

\* C18: an updateStatus call that asks for SENT on a Document of the caller
\* that is not DRAFT is rejected and leaves every Document and every Signature
\* as it is.
C18_DispatchOnlyFromDraft ==
    [][\A u \in Users, d \in DocIds :
         (/\ updateStatus(u, d, "SENT")
          /\ docs[d].exists /\ docs[d].senderId = u
          /\ docs[d].status # "DRAFT")
            => /\ res' = [op |-> "updateStatus", code |-> "BAD_REQUEST"]
               /\ docs' = docs
               /\ sigs' = sigs]_vars

\* two entries of a recipient list hold the same address
HasDuplicate(r) == \E i, j \in 1..Len(r) : i # j /\ r[i] = r[j]

\* C19: a create call whose recipient list holds the same address twice is
\* rejected with BAD_REQUEST and inserts nothing, and after every step no two
\* Signatures of one Document have the same recipientEmail.
C19_NoDuplicateRecipient ==
    [][/\ \A u \in Users, r \in DispatchLists, b \in BOOLEAN :
            (create(u, r, b, NULL) /\ HasDuplicate(r))
               => /\ res' = [op |-> "create", code |-> "BAD_REQUEST"]
                  /\ docs' = docs
                  /\ sigs' = sigs
       /\ \A s1, s2 \in SigIds :
            (/\ s1 # s2
             /\ sigs'[s1].exists /\ sigs'[s2].exists
             /\ sigs'[s1].documentId = sigs'[s2].documentId)
               => sigs'[s1].recipientEmail # sigs'[s2].recipientEmail]_vars

\* C20: a resend call on a Signature whose Document was sent by someone else
\* ends with FORBIDDEN, and one by the sender on a Signature that is not
\* PENDING ends with BAD_REQUEST; either way no Signature (updatedAt included)
\* and no Document changes.  The sender's resend of a PENDING Signature
\* writes its updatedAt and nothing else.
C20_ResendRejections ==
    [][\A u \in Users, s \in SigIds :
         (resend(u, s) /\ sigs[s].exists)
            => IF docs[sigs[s].documentId].senderId # u
                  THEN /\ res' = [op |-> "resend", code |-> "FORBIDDEN"]
                       /\ sigs' = sigs
                       /\ docs' = docs
                  ELSE IF sigs[s].status # "PENDING"
                  THEN /\ res' = [op |-> "resend", code |-> "BAD_REQUEST"]
                       /\ sigs' = sigs
                       /\ docs' = docs
                  ELSE /\ res' = [op |-> "resend", code |-> "ok"]
                       /\ sigs' = [sigs EXCEPT ![s].updatedAt = now]
                       /\ docs' = docs]_vars

\* a resend has just been rejected as an invalid state: the Signatures that are
\* not PENDING all have an updatedAt earlier than the current time, the one a
\* resend accepted then would have written
C20_Witness ==
    /\ res = [op |-> "resend", code |-> "BAD_REQUEST"]
    /\ \E s \in SigIds : sigs[s].exists /\ sigs[s].status # "PENDING"
    /\ \A s \in SigIds :
          (sigs[s].exists /\ sigs[s].status # "PENDING") => sigs[s].updatedAt < now

\* the rows of sigs that a step has changed
Touched == {s \in SigIds : sigs'[s] # sigs[s]}

\* the step of a resend or bulkResend call that succeeds: a sender's call (no
\* request slot moves) that ends with ok
Reminded ==
    /\ pc' = pc
    /\ res'.op \in {"resend", "bulkResend"}
    /\ res'.code = "ok"
    /\ now' = now

\* a reminder's effect: the Signatures it changes were PENDING without payload
\* and signedAt and still are, only their updatedAt has moved, to the current
\* time; no Document changes
OnlyReminded ==
    /\ docs' = docs
    /\ \A s \in SigIds : sigs'[s] = [sigs[s] EXCEPT !.updatedAt = sigs'[s].updatedAt]
    /\ \A s \in Touched :
          /\ sigs[s].exists
          /\ sigs'[s].status = "PENDING"
          /\ sigs'[s].signatureData = NULL
          /\ sigs'[s].signedAt = NULL
          /\ sigs'[s].updatedAt = now

C22_BatchFollowsTransitionRules ==
    [][\A u \in Users, D \in SUBSET DocIds \ {{}}, st \in DocumentStatus :
         batchUpdateStatus(u, D, st)
            => \A d \in DocIds :
                  docs[d].exists
                     => docs'[d] =
                           IF /\ d \in D
                              /\ docs[d].senderId = u
                              /\ <<docs[d].status, st>> \in DocumentEdges
                              THEN [docs[d] EXCEPT !.status = st]
                              ELSE docs[d]]_vars

\* the Signatures of Document d whose request has not been mailed
NotMailed(d) == {s \in SignaturesOf(d) : SignatureRequest(s) \notin mail.sent}

\* C23: a mail that cannot be delivered undoes nothing: whatever becomes of
\* the signature requests, a create call with sendImmediately and a valid
\* recipient list returns ok and leaves a new SENT Document of the caller with
\* one PENDING Signature per recipient; and no step ever takes a Document or a
\* Signature away again.
C23_MailFailureUndoesNothing ==
    [][/\ \A u \in Users, r \in RecipientLists(Emails, Cardinality(SigIds)),
             e \in {NULL} \cup Times :
            (create(u, r, TRUE, e) /\ RecipientsValid(r))
               => /\ res' = [op |-> "create", code |-> "ok"]
                  /\ \E d \in DocIds :
                        /\ ~docs[d].exists
                        /\ docs'[d] = [exists |-> TRUE, status |-> "SENT",
                                       senderId |-> u, expiresAt |-> e]
                        /\ Cardinality(SignaturesOf(d)') = Len(r)
                        /\ \A s \in SignaturesOf(d)' :
                              ~sigs[s].exists /\ sigs'[s].status = "PENDING"
       /\ \A d \in DocIds : docs[d].exists => docs'[d].exists
       /\ \A s \in SigIds : sigs[s].exists => sigs'[s].exists]_vars

\* a create call has just returned ok with RESEND_API_KEY set, and the provider
\* did not take the request of one of the two recipients: the Document is SENT,
\* both Signatures are PENDING, one request was mailed and one was not
C23_Witness ==
    /\ res = [op |-> "create", code |-> "ok"]
    /\ mail.RESEND_API_KEY
    /\ \E d \in DocIds :
          /\ docs[d].exists /\ docs[d].status = "SENT"
          /\ Cardinality(SignaturesOf(d)) = 2
          /\ \A s \in SignaturesOf(d) : sigs[s].status = "PENDING"
          /\ Cardinality(NotMailed(d)) = 1

\* the mails a step hands to the provider
Emitted == mail'.sent \ mail.sent

\* C24: with the mail service configured, every sign call that succeeds emits
\* exactly one notification (the completion notice when it made the last
\* Signature SIGNED, the collection notice otherwise).
C24_SignEmitsOneNotification ==
    [][\A p \in Procs :
         (/\ mail.RESEND_API_KEY
          /\ pc[p] \in {"signCommit", "signComplete"}
          /\ pc'[p] = "idle"
          /\ res' = [op |-> "sign", code |-> "ok"])
            => Cardinality(Emitted) = 1]_vars

\* C25: a SENT Document without a deadline whose Signatures are all PENDING,
\* and whose recipients only sign: if every Signature is eventually SIGNED,
\* the Document is eventually COMPLETED and stays COMPLETED, in whatever order
\* the sign calls interleave.
C25_AllSignedLeadsToCompleted ==
    (\A s \in 1..RaceSigs : <>(sigs[s].status = "SIGNED"))
        => <>[](docs[1].status = "COMPLETED")

\* C26: a cancelSignatures call of user u never changes a Signature of a
\* Document that another user sent: the call is rejected with FORBIDDEN and
\* changes nothing, or every Signature it changes belongs to a Document whose
\* senderId is u.
C26_CancelOnlyOwnSignatures ==
    [][\A u \in Users, ids \in SUBSET SigIds \ {{}} :
         cancelSignatures(u, ids)
            => \/ /\ res' = [op |-> "cancelSignatures", code |-> "FORBIDDEN"]
                  /\ sigs' = sigs
                  /\ docs' = docs
               \/ \A s \in Touched : docs[sigs[s].documentId].senderId = u]_vars

\* a step of one of the calls by which user u changes documents
ChangesDocuments(u) ==
    \/ \E d \in DocIds, st \in DocumentStatus : updateStatus(u, d, st)
    \/ \E D \in SUBSET DocIds \ {{}}, st \in DocumentStatus : batchUpdateStatus(u, D, st)
    \/ \E d \in DocIds, e \in Times : update(u, d, e)
    \/ \E ids \in SUBSET SigIds \ {{}}, t \in Times : setDeadline(u, ids, t)
    \/ \E d \in DocIds : delete(u, d)
    \/ \E D \in SUBSET DocIds \ {{}} : batchDelete(u, D)

\* C27: only its sender changes a Document: an updateStatus, update, delete,
\* batchUpdateStatus, batchDelete or setDeadline call of user u leaves every
\* Document that another user sent as it is (status, expiresAt, existence),
\* and so the Signatures of such a Document where they are.
C27_OnlySenderChangesDocument ==
    [][\A u \in Users :
         ChangesDocuments(u)
            => /\ \A d \in DocIds :
                     (docs[d].exists /\ docs[d].senderId # u) => docs'[d] = docs[d]
               /\ \A s \in SigIds :
                     (sigs[s].exists /\ docs[sigs[s].documentId].senderId # u)
                        => sigs'[s].exists]_vars

\* two Documents of two senders exist, one of them changed since its creation
\* (a deadline, a status other than DRAFT and SENT), and a delete call that
\* named one of them has just been answered NOT_FOUND: its caller was not
\* that Document's sender
C27_Witness ==
    /\ res = [op |-> "delete", code |-> "NOT_FOUND"]
    /\ \A d \in DocIds : docs[d].exists
    /\ \E d1, d2 \in DocIds :
          /\ docs[d1].senderId # docs[d2].senderId
          /\ docs[d1].expiresAt # NULL
          /\ docs[d1].status = "CANCELLED"

C29_ExpiredSignLeavesTheRest ==
    [][\A p \in Procs :
         (pc[p] = "signExpire" /\ pc'[p] = "idle")
            => LET s == req[p].signatureId IN
                 /\ sigs'[s].status = "EXPIRED"
                 /\ \A x \in SigIds \ {s} : sigs'[x] = sigs[x]
                 /\ \A d \in DocIds : docs'[d].status = docs[d].status]_vars

\* a sign call has just been rejected as expired: the Document whose deadline
\* has passed is still SENT, one of its Signatures is EXPIRED and another one
\* is still PENDING
C29_Witness ==
    /\ res = [op |-> "sign", code |-> "FORBIDDEN"]
    /\ \E s, x \in SigIds :
          /\ sigs[s].documentId = sigs[x].documentId
          /\ IsExpired(docs[sigs[s].documentId], now)
          /\ docs[sigs[s].documentId].status = "SENT"
          /\ sigs[s].status = "EXPIRED"
          /\ sigs[x].status = "PENDING"

\* the row of s has been deleted
Gone(s) == ~sigs[s].exists /\ sigs[s] # NoSignature

\* C30: a Signature exists only with its Document and goes only with it: every
\* existing Signature belongs to an existing Document; a step that removes a
\* Signature removes its Document, and a step that removes a Document (delete,
\* batchDelete, deleteAccount) removes all its Signatures; a deleted Signature
\* is never written again, and a sign or decline call for it is answered
\* NOT_FOUND.
C30_SignaturesGoWithTheirDocument ==
    [][/\ (\A s \in SigIds : sigs[s].exists => docs[sigs[s].documentId].exists)'
       /\ \A s \in SigIds :
            (sigs[s].exists /\ ~sigs'[s].exists)
               => docs[sigs[s].documentId].exists /\ ~docs'[sigs[s].documentId].exists
       /\ \A d \in DocIds :
            (docs[d].exists /\ ~docs'[d].exists)
               => \A s \in SignaturesOf(d) : ~sigs'[s].exists
       /\ \A s \in SigIds : Gone(s) => sigs'[s] = sigs[s]
       /\ \A p \in Procs, s \in SigIds :
            /\ \A data \in Payloads :
                  (signFind(p, s, data) /\ Gone(s))
                     => res' = [op |-> "sign", code |-> "NOT_FOUND"]
            /\ (declineFind(p, s) /\ Gone(s))
                  => res' = [op |-> "decline", code |-> "NOT_FOUND"]]_vars

\* a Document with two Signatures has been deleted, both Signatures went with
\* it, and a sign call made since has been answered NOT_FOUND
C30_Witness ==
    /\ res = [op |-> "sign", code |-> "NOT_FOUND"]
    /\ \E d \in DocIds :
          /\ ~docs[d].exists /\ docs[d] # NoDocument
          /\ Cardinality({s \in SigIds : Gone(s) /\ sigs[s].documentId = d}) = 2
    /\ \A s \in SigIds : Gone(s)

====
